---- MODULE Spec2Model ----
(***************************************************************************)
(* Model of scripts/yuv2rgb.py: one run of the converter script.           *)
(* Python strings are modelled as sequences of one-character strings, so   *)
(* that strip(), split(' '), endswith(), lower() and the f-string are      *)
(* computed character by character as Python computes them.                *)
(***************************************************************************)
EXTENDS Integers, Sequences, FiniteSets, TLC

\* Largest number of extra whitespace characters put before a line, after a
\* line, or between a label and its value in the generated metadata files.
MaxPad == 1

----------------------------------------------------------------------------
\* String literals of the script and of the inputs.

SP == " "
TAB == "\t"
NL == "\n"

\* Whitespace removed by str.strip() (the part of it the inputs use).
Whitespace == {SP, TAB, NL, "\r"}

S_ffmpeg == <<"f","f","m","p","e","g">>
S_y == <<"-","y">>
S_n == <<"-","n">>
S_f == <<"-","f">>
S_image2 == <<"i","m","a","g","e","2">>
S_vcodec == <<"-","v","c","o","d","e","c">>
S_rawvideo == <<"r","a","w","v","i","d","e","o">>
S_pix_fmt == <<"-","p","i","x","_","f","m","t">>
S_s == <<"-","s">>
S_i == <<"-","i">>
S_x == <<"x">>
DotJpg == <<".","j","p","g">>
DotPng == <<".","p","n","g">>

L_width == <<"w","i","d","t","h">>
L_height == <<"h","e","i","g","h","t">>
L_pixel_format == <<"p","i","x","e","l","_","f","o","r","m","a","t">>

T_640 == <<"6","4","0">>
T_480 == <<"4","8","0">>
T_NV21 == <<"N","V","2","1">>
T_nv21 == <<"n","v","2","1">>
T_neg == <<"-","1">>
T_abc == <<"a","b","c">>
T_Yuv == <<"Y","u","v","4","2","0","P">>
T_yuv == <<"y","u","v","4","2","0","p">>

P_input == <<"i","n","p","u","t",".","n","v","2","1">>
P_meta == <<"m","e","t","a",".","t","x","t">>
P_out == <<"o","u","t">>
P_out_jpg == P_out \o DotJpg
P_out_png == P_out \o DotPng
P_out_gif == P_out \o <<".","g","i","f">>
P_out_JPG == P_out \o <<".","J","P","G">>
P_result_bmp == <<"r","e","s","u","l","t",".","b","m","p">>
P_out_jpg_txt == P_out_jpg \o <<".","t","x","t">>

\* Values of variables that have not been assigned yet.
Unset == <<"<unset>">>
NoFile == <<"<missing>">>
NoArgs == [overwrite |-> FALSE, input |-> Unset, meta |-> Unset, output |-> Unset]

----------------------------------------------------------------------------
\* Python string operations.

\* The parameters of the operations below are bound to their values by the
\* one-point functions (f[t \in {s}]), so that each is computed once.

SetMin(S) ==
  LET least[T \in {S}] == CHOOSE m \in T : \A k \in T : m <= k
  IN least[S]
SetMax(S) ==
  LET greatest[T \in {S}] == CHOOSE m \in T : \A k \in T : m >= k
  IN greatest[S]

\* Index of the first occurrence of c in s, 0 if there is none.
FirstIndex(s, c) ==
  LET find[t \in {s}] ==
        IF \A i \in 1..Len(t) : t[i] # c THEN 0
        ELSE SetMin({i \in 1..Len(t) : t[i] = c})
  IN find[s]

\* str.endswith(suffix)
EndsWith(s, suffix) ==
  /\ Len(s) >= Len(suffix)
  /\ SubSeq(s, Len(s) - Len(suffix) + 1, Len(s)) = suffix

StripNone(s) == s

\* str.strip(): drop leading and trailing whitespace.
Strip(s) ==
  LET strip[t \in {s}] ==
        IF \A i \in 1..Len(t) : t[i] \in Whitespace THEN <<>>
        ELSE SubSeq(t, SetMin({i \in 1..Len(t) : t[i] \notin Whitespace}),
                       SetMax({i \in 1..Len(t) : t[i] \notin Whitespace}))
  IN strip[s]

\* str.split(' '): cut at every single space; neighbouring spaces give
\* empty strings.
RECURSIVE Split(_)
Split(s) ==
  LET split[t \in {s}] ==
        IF FirstIndex(t, SP) = 0 THEN <<t>>
        ELSE <<SubSeq(t, 1, FirstIndex(t, SP) - 1)>>
               \o Split(SubSeq(t, FirstIndex(t, SP) + 1, Len(t)))
  IN split[s]

\* file.readlines(): cut after every newline, keeping the newline.
RECURSIVE ReadLines(_)
ReadLines(s) ==
  LET readlines[t \in {s}] ==
        IF t = <<>> THEN <<>>
        ELSE IF FirstIndex(t, NL) = 0 THEN <<t>>
        ELSE <<SubSeq(t, 1, FirstIndex(t, NL))>>
               \o ReadLines(SubSeq(t, FirstIndex(t, NL) + 1, Len(t)))
  IN readlines[s]

UpperCase == <<"A","B","C","D","E","F","G","H","I","J","K","L","M",
               "N","O","P","Q","R","S","T","U","V","W","X","Y","Z">>
LowerCase == <<"a","b","c","d","e","f","g","h","i","j","k","l","m",
               "n","o","p","q","r","s","t","u","v","w","x","y","z">>

LowerChar(c) ==
  IF \A i \in 1..26 : UpperCase[i] # c THEN c
  ELSE LowerCase[CHOOSE i \in 1..26 : UpperCase[i] = c]

LowerNone(s) == s

\* str.lower()
Lower(s) == [i \in 1..Len(s) |-> LowerChar(s[i])]

----------------------------------------------------------------------------
\* parse_meta

\* lines = [l.strip() for l in f.readlines()]
StrippedLines(file) ==
  [i \in 1..Len(ReadLines(file)) |-> Strip(ReadLines(file)[i])]

\* lines[i].split(' ')[1] raises IndexError unless there is a line i with a
\* second token.
HasValue(lines, i) == Len(lines) >= i /\ Len(Split(lines[i])) >= 2

parse_meta_first_token(file) ==
  IF file = NoFile
  THEN [exc |-> "FileNotFoundError", value |-> <<Unset, Unset, Unset>>]
  ELSE LET parse[lines \in {StrippedLines(file)}] ==
             IF \A i \in 1..3 : Len(lines) >= i
             THEN [exc |-> "none",
                   value |-> <<Split(lines[1])[1], Split(lines[2])[1],
                               Split(lines[3])[1]>>]
             ELSE [exc |-> "IndexError", value |-> <<Unset, Unset, Unset>>]
       IN parse[StrippedLines(file)]

\* The result of parse_meta on the file found at the metadata path: the
\* exception it raises, or the triple it returns.
parse_meta(file) ==
  IF file = NoFile
  THEN [exc |-> "FileNotFoundError", value |-> <<Unset, Unset, Unset>>]
  ELSE LET parse[lines \in {StrippedLines(file)}] ==
             IF \A i \in 1..3 : HasValue(lines, i)
             THEN [exc |-> "none",
                   value |-> <<Split(lines[1])[2], Split(lines[2])[2],
                               Split(lines[3])[2]>>]
             ELSE [exc |-> "IndexError", value |-> <<Unset, Unset, Unset>>]
       IN parse[StrippedLines(file)]

----------------------------------------------------------------------------
\* Validation and command construction (the expressions of the main block).

ValidOutputAnyCase(output) ==
  EndsWith(Lower(output), DotJpg) \/ EndsWith(Lower(output), DotPng)

\* The negation of the condition of the suffix check.
ValidOutput(output) ==
  ~(~EndsWith(output, DotJpg) /\ ~EndsWith(output, DotPng))

OverwriteFlagAlwaysRefuse(overwrite) == S_n

\* '-y' if args.overwrite else '-n'
OverwriteFlag(overwrite) == IF overwrite THEN S_y ELSE S_n

\* f'{width}x{height}'
SizeToken(w, h) == w \o S_x \o h

CmdListSwappedPaths(flag, pf, w, h, input, output) ==
  << S_ffmpeg, flag, S_f, S_image2, S_vcodec, S_rawvideo,
     S_pix_fmt, pf, S_s, SizeToken(w, h), S_i, output, input >>

\* The list literal assigned to cmd.
CmdList(flag, pf, w, h, input, output) ==
  << S_ffmpeg, flag, S_f, S_image2, S_vcodec, S_rawvideo,
     S_pix_fmt, pf, S_s, SizeToken(w, h), S_i, input, output >>

NextStmtMetaFirst(stmt) ==
  CASE stmt = "parse_args" -> "parse_meta"
    [] stmt = "parse_meta" -> "validate"
    [] stmt = "validate" -> "lower"
    [] stmt = "lower" -> "overwrite_flag"
    [] stmt = "overwrite_flag" -> "build_cmd"
    [] stmt = "build_cmd" -> "call"
    [] stmt = "call" -> "wait"
    [] stmt = "wait" -> "exit"
    [] OTHER -> "done"

\* The statement that follows stmt in the main block when stmt does not
\* raise.
NextStmt(stmt) ==
  CASE stmt = "parse_args" -> "validate"
    [] stmt = "validate" -> "parse_meta"
    [] stmt = "parse_meta" -> "lower"
    [] stmt = "lower" -> "overwrite_flag"
    [] stmt = "overwrite_flag" -> "build_cmd"
    [] stmt = "build_cmd" -> "call"
    [] stmt = "call" -> "wait"
    [] stmt = "wait" -> "exit"
    [] OTHER -> "done"

----------------------------------------------------------------------------
\* Inputs of a run.

Outputs == {P_out_jpg, P_out_png, P_out_gif, P_out, P_out_JPG,
            P_result_bmp, P_out_jpg_txt, DotJpg}
Inputs == {P_input}

\* Exit statuses of the external tool.
ToolStatuses == {0, 1}

\* Metadata values: width, height, pixel format, and, for reference, the
\* pixel format written in lower case.
Triples == { <<T_640, T_480, T_NV21, T_nv21>>,
             <<T_neg, T_abc, T_Yuv, T_yuv>> }

Labels == <<L_width, L_height, L_pixel_format>>

PadChars == {SP, TAB}
Pads == UNION {[1..k -> PadChars] : k \in 0..MaxPad}
TrailPads == {[i \in 1..k |-> SP] : k \in 0..MaxPad} \cup {<<TAB>>}
Spaces(k) == [i \in 1..k |-> SP]

Line(lead, label, sep, value, trail) ==
  lead \o label \o sep \o value \o trail \o <<NL>>

\* A three-line metadata file holding the triple t, whose line number padded
\* has lead before the label, extra more spaces than one between label and
\* value, and trail after the value.
MetaText(t, padded, lead, extra, trail) ==
  LET L(j) == IF j = padded
              THEN Line(lead, Labels[j], Spaces(1 + extra), t[j], trail)
              ELSE Line(<<>>, Labels[j], Spaces(1), t[j], <<>>)
  IN L(1) \o L(2) \o L(3)

PaddedFiles ==
  { MetaText(t, j, lead, extra, trail) :
      t \in Triples, j \in 1..3, lead \in Pads, extra \in 0..MaxPad,
      trail \in TrailPads }

Plain(j) == Labels[j] \o <<SP>> \o T_640 \o <<NL>>

\* Files with fewer than three lines, or with a line that has no value.
ShortFiles ==
  { <<>>,
    <<NL>>,
    Plain(1),
    Plain(1) \o Plain(2),
    Plain(1) \o L_height \o <<SP>> \o T_480 }
NoValueFiles ==
  { Plain(1) \o L_height \o <<NL>> \o Plain(3),
    Plain(1) \o Plain(2) \o L_pixel_format \o <<SP, NL>>,
    L_width \o <<TAB>> \o T_640 \o <<NL>> \o Plain(2) \o Plain(3),
    <<NL>> \o Plain(1) \o Plain(2) \o Plain(3),
    Plain(1) \o Plain(2) \o L_pixel_format }

\* Other files that parse: a fourth line, a third token, no final newline.
OtherFiles ==
  { Plain(1) \o Plain(2) \o Plain(3) \o Plain(1),
    L_width \o <<SP>> \o T_640 \o <<SP>> \o T_abc \o <<NL>> \o Plain(2) \o Plain(3),
    Plain(1) \o Plain(2) \o L_pixel_format \o <<SP>> \o T_NV21 }

MetaFiles == PaddedFiles \cup ShortFiles \cup NoValueFiles \cup OtherFiles
               \cup {NoFile}

----------------------------------------------------------------------------
\* State of a run.

VARIABLES
  pc,            \* the statement of the main block to execute next
  metaFile,      \* content of the file at the metadata path, or NoFile
  args,          \* the parsed command line
  width, height, pixel_format, overwrite_flag, cmd,   \* the script's variables
  calls,         \* the commands handed to subprocess.call so far
  toolStatus,    \* <<rc>> once the external tool has returned rc
  exception,     \* the uncaught exception, "none" if there is none
  exitStatus,    \* <<status>> once the interpreter has exited
  steps          \* the statements executed so far, in order

vars == <<pc, metaFile, args, width, height, pixel_format, overwrite_flag,
          cmd, calls, toolStatus, exception, exitStatus, steps>>

Init ==
  /\ pc = "parse_args"
  /\ metaFile \in MetaFiles
  /\ args = NoArgs
  /\ width = Unset
  /\ height = Unset
  /\ pixel_format = Unset
  /\ overwrite_flag = Unset
  /\ cmd = <<>>
  /\ calls = <<>>
  /\ toolStatus = <<>>
  /\ exception = "none"
  /\ exitStatus = <<>>
  /\ steps = <<>>

\* An exception raised by stmt is not caught: the run goes to its exit.
Raise(stmt, exc) ==
  /\ exception' = exc
  /\ pc' = "exit"
  /\ steps' = Append(steps, stmt)

Advance(stmt) ==
  /\ pc' = NextStmt(stmt)
  /\ steps' = Append(steps, stmt)

\* args = parser.parse_args()
ParseArgs ==
  /\ pc = "parse_args"
  /\ \E ow \in BOOLEAN, in \in Inputs, out \in Outputs :
       args' = [overwrite |-> ow, input |-> in, meta |-> P_meta, output |-> out]
  /\ Advance("parse_args")
  /\ UNCHANGED <<metaFile, width, height, pixel_format, overwrite_flag, cmd,
                 calls, toolStatus, exception, exitStatus>>

ValidateOutputOmitted ==
  /\ pc = "validate"
  /\ Advance("validate")
  /\ UNCHANGED <<metaFile, args, width, height, pixel_format, overwrite_flag,
                 cmd, calls, toolStatus, exception, exitStatus>>

\* if not ...endswith('.jpg') and not ...endswith('.png'): raise ValueError
ValidateOutput ==
  /\ pc = "validate"
  /\ IF ValidOutput(args.output)
     THEN Advance("validate") /\ UNCHANGED exception
     ELSE Raise("validate", "ValueError")
  /\ UNCHANGED <<metaFile, args, width, height, pixel_format, overwrite_flag,
                 cmd, calls, toolStatus, exitStatus>>

\* width, height, pixel_format = parse_meta(args.meta)
ParseMeta ==
  /\ pc = "parse_meta"
  /\ LET r == parse_meta(metaFile)
     IN IF r.exc = "none"
        THEN /\ width' = r.value[1]
             /\ height' = r.value[2]
             /\ pixel_format' = r.value[3]
             /\ Advance("parse_meta")
             /\ UNCHANGED exception
        ELSE /\ Raise("parse_meta", r.exc)
             /\ UNCHANGED <<width, height, pixel_format>>
  /\ UNCHANGED <<metaFile, args, overwrite_flag, cmd, calls, toolStatus,
                 exitStatus>>

\* pixel_format = pixel_format.lower()
LowerPixelFormat ==
  /\ pc = "lower"
  /\ pixel_format' = Lower(pixel_format)
  /\ Advance("lower")
  /\ UNCHANGED <<metaFile, args, width, height, overwrite_flag, cmd, calls,
                 toolStatus, exception, exitStatus>>

\* overwrite_flag = '-y' if args.overwrite else '-n'
SetOverwriteFlag ==
  /\ pc = "overwrite_flag"
  /\ overwrite_flag' = OverwriteFlag(args.overwrite)
  /\ Advance("overwrite_flag")
  /\ UNCHANGED <<metaFile, args, width, height, pixel_format, cmd, calls,
                 toolStatus, exception, exitStatus>>

\* cmd = [...]
BuildCmd ==
  /\ pc = "build_cmd"
  /\ cmd' = CmdList(overwrite_flag, pixel_format, width, height, args.input,
                    args.output)
  /\ Advance("build_cmd")
  /\ UNCHANGED <<metaFile, args, width, height, pixel_format, overwrite_flag,
                 calls, toolStatus, exception, exitStatus>>

\* subprocess.call(cmd): the child process is started with cmd.  The script
\* requires ffmpeg to be installed, so starting it does not fail.
CallTool ==
  /\ pc = "call"
  /\ calls' = Append(calls, cmd)
  /\ Advance("call")
  /\ UNCHANGED <<metaFile, args, width, height, pixel_format, overwrite_flag,
                 cmd, toolStatus, exception, exitStatus>>

ToolReturnsRetry ==
  /\ pc = "wait"
  /\ \E rc \in ToolStatuses :
       /\ toolStatus' = <<rc>>
       /\ IF rc # 0 /\ Len(calls) < 2
          THEN pc' = "call" /\ steps' = Append(steps, "wait")
          ELSE Advance("wait")
  /\ UNCHANGED <<metaFile, args, width, height, pixel_format, overwrite_flag,
                 cmd, calls, exception, exitStatus>>

\* subprocess.call(cmd) returns the status of the child; the statement
\* discards it.
ToolReturns ==
  /\ pc = "wait"
  /\ \E rc \in ToolStatuses : toolStatus' = <<rc>>
  /\ Advance("wait")
  /\ UNCHANGED <<metaFile, args, width, height, pixel_format, overwrite_flag,
                 cmd, calls, exception, exitStatus>>

ExitPropagate ==
  /\ pc = "exit"
  /\ exitStatus' = IF exception = "none" THEN toolStatus ELSE <<1>>
  /\ Advance("exit")
  /\ UNCHANGED <<metaFile, args, width, height, pixel_format, overwrite_flag,
                 cmd, calls, toolStatus, exception>>

\* The interpreter exits: status 0 at the end of the script, 1 after an
\* uncaught exception.
Exit ==
  /\ pc = "exit"
  /\ exitStatus' = IF exception = "none" THEN <<0>> ELSE <<1>>
  /\ Advance("exit")
  /\ UNCHANGED <<metaFile, args, width, height, pixel_format, overwrite_flag,
                 cmd, calls, toolStatus, exception>>

Next ==
  \/ ParseArgs
  \/ ValidateOutput
  \/ ParseMeta
  \/ LowerPixelFormat
  \/ SetOverwriteFlag
  \/ BuildCmd
  \/ CallTool
  \/ ToolReturns
  \/ Exit

Spec == Init /\ [][Next]_vars

\* The interpreter keeps executing, and the external tool terminates.
FairSpec == Spec /\ WF_vars(Next)

----------------------------------------------------------------------------
\* Vocabulary of the properties.

Executed(stmt) == \E i \in 1..Len(steps) : steps[i] = stmt

\* The path is some prefix followed by exactly .jpg or .png.
GoodSuffix(path) ==
  \E n \in 0..Len(path) :
    \/ path = SubSeq(path, 1, n) \o <<".", "j", "p", "g">>
    \/ path = SubSeq(path, 1, n) \o <<".", "p", "n", "g">>

\* The file exists and has fewer than three lines, or one of its first three
\* lines, stripped, holds no space and so no second token.
Malformed(file) ==
  /\ file # NoFile
  /\ LET raw == ReadLines(file)
     IN \/ Len(raw) < 3
        \/ \E i \in 1..3 : \A k \in 1..Len(Strip(raw[i])) : Strip(raw[i])[k] # SP

Phase(stmt) ==
  CASE stmt = "parse_args" -> "args"
    [] stmt = "validate" -> "validate"
    [] stmt = "parse_meta" -> "meta"
    [] stmt \in {"lower", "overwrite_flag", "build_cmd"} -> "build"
    [] stmt \in {"call", "wait"} -> "invoke"
    [] OTHER -> "exit"

Pos(order, phase) == CHOOSE i \in 1..Len(order) : order[i] = phase

\* The statements executed so far follow the given order of phases, none of
\* them twice, and a run that ends without an exception went through all.
FollowsOrder(order) ==
  /\ \A i, j \in 1..Len(steps) :
       i < j => /\ steps[i] # steps[j]
                /\ Pos(order, Phase(steps[i])) <= Pos(order, Phase(steps[j]))
  /\ (pc = "done" /\ exception = "none")
       => {Phase(steps[i]) : i \in 1..Len(steps)} = {order[i] : i \in 1..Len(order)}

ExampleMeta == MetaText(<<T_640, T_480, T_NV21, T_nv21>>, 1, <<>>, 0, <<>>)
S_640x480 == <<"6","4","0","x","4","8","0">>
S_neg_x_abc == <<"-","1","x","a","b","c">>

----------------------------------------------------------------------------
\* C1: an output path that does not end in exactly .jpg or .png makes the
\* suffix check raise ValueError, the run ends with a failure status and the
\* external tool is never called; an output path that ends in .jpg or .png
\* passes the suffix check.
C1_SuffixValidation ==
  /\ (args # NoArgs /\ ~GoodSuffix(args.output)) => calls = <<>>
  /\ Executed("validate") =>
       /\ ~GoodSuffix(args.output) =>
            /\ exception = "ValueError"
            /\ pc \in {"exit", "done"}
            /\ pc = "done" => exitStatus = <<1>>
       /\ GoodSuffix(args.output) => exception # "ValueError"

C1_Witness ==
  /\ pc = "done"
  /\ args.output = P_out_JPG
  /\ exception = "ValueError"
  /\ exitStatus = <<1>>
  /\ calls = <<>>

\* C2 as stated: whenever the metadata file is malformed, the run fails with
\* IndexError and the external tool is never called.
C2_AsStated ==
  (pc = "done" /\ Malformed(metaFile))
    => (exception = "IndexError" /\ calls = <<>>)

\* C2 amended: when the output path ends in .jpg or .png and the metadata
\* file is malformed, the run fails with IndexError; whatever the output
\* path, a malformed metadata file means the external tool is never called.
C2_FormatError ==
  /\ (args # NoArgs /\ Malformed(metaFile)) => calls = <<>>
  /\ (pc = "done" /\ Malformed(metaFile) /\ GoodSuffix(args.output))
       => (exception = "IndexError" /\ exitStatus = <<1>> /\ calls = <<>>)
  /\ (Executed("parse_meta") /\ Malformed(metaFile)) => exception = "IndexError"

C2_Witness ==
  /\ pc = "done"
  /\ metaFile = Plain(1) \o Plain(2)
  /\ args.output = P_out_jpg
  /\ exception = "IndexError"
  /\ calls = <<>>

\* C3: with an output path whose suffix is invalid the run ends with
\* ValueError, never with FileNotFoundError or IndexError, whether the
\* metadata file is well formed, malformed or missing: the metadata file is
\* not read in such a run.
C3_ValidationRegardlessOfMeta ==
  (pc = "done" /\ ~GoodSuffix(args.output))
    => /\ exception = "ValueError"
       /\ ~Executed("parse_meta")
       /\ <<width, height, pixel_format>> = <<Unset, Unset, Unset>>

C3_Witness ==
  /\ pc = "done"
  /\ args.output = P_result_bmp
  /\ metaFile = NoFile
  /\ exception = "ValueError"

\* C4 as stated: parse_meta returns (w, h, p) for every three-line file
\* `width w`, `height h`, `pixel_format p`, also with whitespace before or
\* after a line and with extra spaces between a label and its value.
C4_AsStated ==
  \A t \in Triples, j \in 1..3, lead \in Pads, extra \in 0..MaxPad, trail \in TrailPads :
    (pc = "lower" /\ metaFile = MetaText(t, j, lead, extra, trail))
      => <<width, height, pixel_format>> = <<t[1], t[2], t[3]>>

\* C4 amended: parse_meta returns (w, h, p) whatever whitespace stands
\* before or after a line, provided exactly one space separates each label
\* from its value; with more spaces between the label and the value of a
\* line, the value returned for that line is the empty string.
C4_ParseMeta ==
  \A t \in Triples, j \in 1..3, lead \in Pads, extra \in 0..MaxPad, trail \in TrailPads :
    (pc = "lower" /\ metaFile = MetaText(t, j, lead, extra, trail))
      => LET got == <<width, height, pixel_format>>
         IN /\ \A k \in 1..3 : (k # j \/ extra = 0) => got[k] = t[k]
            /\ extra > 0 => got[j] = <<>>

C4_Witness ==
  /\ pc = "lower"
  /\ metaFile = MetaText(<<T_640, T_480, T_NV21, T_nv21>>, 1, <<TAB>>, 0, <<SP>>)
  /\ <<width, height, pixel_format>> = <<T_640, T_480, T_NV21>>

\* C5: the command is the tool's name followed by the overwrite flag,
\* -f image2, -vcodec rawvideo, -pix_fmt and the pixel format, -s and the
\* size written width, x, height, -i and the input path, and last the output
\* path; this command is what the tool is called with.  For the metadata
\* 640 / 480 / NV21, input.nv21, out.jpg and no overwrite option it is
\* ffmpeg -n -f image2 -vcodec rawvideo -pix_fmt nv21 -s 640x480
\* -i input.nv21 out.jpg.
C5_CommandOrder ==
  /\ cmd # <<>> =>
       /\ Len(cmd) = 13
       /\ cmd[1] = S_ffmpeg
       /\ cmd[2] \in {S_y, S_n}
       /\ <<cmd[3], cmd[4]>> = <<S_f, S_image2>>
       /\ <<cmd[5], cmd[6]>> = <<S_vcodec, S_rawvideo>>
       /\ <<cmd[7], cmd[8]>> = <<S_pix_fmt, pixel_format>>
       /\ cmd[9] = S_s
       /\ cmd[10] = width \o <<"x">> \o height
       /\ <<cmd[11], cmd[12]>> = <<S_i, args.input>>
       /\ cmd[13] = args.output
  /\ calls # <<>> => calls[1] = cmd /\ cmd # <<>>
  /\ (pc = "done" /\ exception = "none") => calls = <<cmd>>
  /\ ( /\ cmd # <<>>
       /\ metaFile = ExampleMeta
       /\ args = [overwrite |-> FALSE, input |-> P_input, meta |-> P_meta,
                  output |-> P_out_jpg] )
       => cmd = << S_ffmpeg, S_n, S_f, S_image2, S_vcodec, S_rawvideo,
                   S_pix_fmt, T_nv21, S_s, S_640x480, S_i, P_input, P_out_jpg >>

C5_Witness ==
  /\ metaFile = ExampleMeta
  /\ ~args.overwrite
  /\ calls = << << S_ffmpeg, S_n, S_f, S_image2, S_vcodec, S_rawvideo,
                   S_pix_fmt, T_nv21, S_s, S_640x480, S_i, P_input, P_out_jpg >> >>

\* The places of the command that the script fills with its own options, as
\* opposed to the values copied from the metadata and the command line.
OptionPlaces == {1, 2, 3, 4, 5, 6, 7, 9, 11}

\* C6: among the options of a built command exactly one is -y or -n, the one
\* after the tool's name: -y exactly when the overwrite option was given,
\* -n exactly when it was not; the command built for the other setting of
\* the overwrite option differs in that argument and in no other.
C6_OverwriteFlag ==
  cmd # <<>> =>
    /\ {i \in OptionPlaces : cmd[i] \in {S_y, S_n}} = {2}
    /\ cmd[2] = S_y <=> args.overwrite
    /\ cmd[2] = S_n <=> ~args.overwrite
    /\ \A ow \in BOOLEAN :
         LET other == CmdList(OverwriteFlag(ow), pixel_format, width, height,
                              args.input, args.output)
         IN /\ Len(other) = Len(cmd)
            /\ \A i \in 1..Len(cmd) : i # 2 => other[i] = cmd[i]
            /\ other[2] = cmd[2] <=> ow = args.overwrite

C6_Witness ==
  /\ cmd # <<>>
  /\ args.overwrite
  /\ args.output = P_out_png
  /\ cmd[2] = S_y

\* C7: the pixel format in the command is the value of the third metadata
\* line in lower case (NV21 gives nv21) and holds no upper-case letter; the
\* size is made of the width and height as they stand in the file, numbers
\* or not.
C7_LowerCasedPixelFormat ==
  /\ cmd # <<>> => \A i \in 1..Len(cmd[8]) : \A u \in 1..26 : cmd[8][i] # UpperCase[u]
  /\ \A t \in Triples, j \in 1..3, lead \in Pads, trail \in TrailPads :
       (cmd # <<>> /\ metaFile = MetaText(t, j, lead, 0, trail))
         => /\ cmd[8] = t[4]
            /\ cmd[10] = t[1] \o <<"x">> \o t[2]
            /\ <<width, height>> = <<t[1], t[2]>>

C7_Witness ==
  /\ cmd # <<>>
  /\ cmd[8] = T_yuv
  /\ cmd[10] = S_neg_x_abc
  /\ calls # <<>>

\* C8 as stated: the phases of a run follow the order arguments, metadata,
\* suffix validation, command, invocation, exit.
C8_AsStated ==
  FollowsOrder(<<"args", "meta", "validate", "build", "invoke", "exit">>)

\* C8 amended: the phases of a run follow the order arguments, suffix
\* validation, metadata, command, invocation, exit: the output suffix is
\* validated before the metadata file is read.
C8_SequentialOrder ==
  /\ FollowsOrder(<<"args", "validate", "meta", "build", "invoke", "exit">>)
  /\ Executed("parse_meta") => Executed("validate")

C8_Witness ==
  /\ pc = "done"
  /\ steps = <<"parse_args", "validate", "parse_meta", "lower",
               "overwrite_flag", "build_cmd", "call", "wait", "exit">>

\* C9: a run in which the external tool was called ends without an
\* exception and with exit status 0, whatever status the tool returned.
C9_ToolStatusIgnored ==
  (pc = "done" /\ calls # <<>>)
    => /\ exception = "none"
       /\ exitStatus = <<0>>
       /\ toolStatus \in {<<rc>> : rc \in ToolStatuses}

C9_Witness ==
  /\ pc = "done"
  /\ calls # <<>>
  /\ toolStatus = <<1>>
  /\ exitStatus = <<0>>

C10_AtMostOnce ==
  /\ Len(calls) <= 1
  /\ pc = "done" =>
       (Len(calls) = 1 <=>
          /\ GoodSuffix(args.output)
          /\ metaFile # NoFile
          /\ ~Malformed(metaFile))

\* C10: the external tool is called at most once in a run, and exactly once
\* when and only when the output suffix is valid and the metadata file
\* parses; every run ends, given that the external tool returns.
C10_SingleInvocation == []C10_AtMostOnce /\ <>(pc = "done")

C10_Witness ==
  /\ pc = "done"
  /\ Len(calls) = 1
  /\ toolStatus = <<1>>
  /\ steps[Len(steps)] = "exit"

====
